---- MODULE Spec2Model ----
(***************************************************************************)
(* The batch analysis pipeline of backend/gemini_agent.py:                 *)
(* process_feedbacks_async splits the feedback list into batches, runs one *)
(* analyze_feedback_batch_async task per batch behind a semaphore and      *)
(* merges what the tasks return.  save_to_db of backend/app.py stores the  *)
(* returned records.                                                       *)
(*                                                                         *)
(* Python values are modelled as follows.                                  *)
(*   feedback item   [id, feedback_text, source]; a key the dict lacks     *)
(*                   holds NoId (id) or Missing (feedback_text, source).   *)
(*   JSON value      [type, elems]: type is the Python type json.loads     *)
(*                   gives ("list", "dict", "str", "int", "bool", "null"), *)
(*                   elems what iterating the value yields (the elements   *)
(*                   of a list, the keys of a dict, the characters of a    *)
(*                   str).                                                 *)
(*   element         [type, id, feedback_text, source]: a record of the    *)
(*                   response array when type = "dict", anything else      *)
(*                   (a number, a key, a character) otherwise.             *)
(* A step of a task is what asyncio runs between two suspension points.    *)
(***************************************************************************)
EXTENDS Integers, Sequences, FiniteSets, TLC

VARIABLES
    feedbacks,    \* the list handed to process_feedbacks_async (mutated by the backfill)
    main_pc,      \* "start", "gathering", "returned", "raised", "saved", "save_error"; "direct": no pipeline call
    batches,      \* the chunks, in batch_num order, one task each
    pc,           \* per task: "waiting", "posted", "body", "errbody", "sleeping", "done"
    semaphore,    \* free slots of the asyncio.Semaphore
    status,       \* per task: the HTTP status received (0 before it is known)
    reply,        \* per task: the body the remote service sent
    task_result,  \* per task: the value the coroutine returned
    outcome,      \* per task: the exit path taken (the line it logged)
    requests,     \* number of session.post calls issued
    all_results,  \* the list process_feedbacks_async returns
    db,           \* rows save_to_db inserted
    acquired,     \* per task: number of times it took a slot of the semaphore
    released,     \* per task: number of times it gave a slot back
    slept,        \* per task: number of pacing delays it started
    overtaken     \* history: some task finished while a task created before it had not

vars == <<feedbacks, main_pc, batches, pc, semaphore, status, reply, task_result,
          outcome, requests, all_results, db, acquired, released, slept, overtaken>>

-----------------------------------------------------------------------------
(* Program constants *)

batch_size == 20
max_concurrent == 5

(* A key that is absent from a dict *)
NoId == 0
Missing == "<absent>"

(* Bounds of the exploration *)
MaxSmall == 2      \* longest input whose items are chosen freely
MaxRecs == 2       \* longest response array whose elements are chosen freely
MaxMedium == 3     \* most batches of a run whose batches may fail in every way
MaxBatches == 6    \* most batches of a run

-----------------------------------------------------------------------------
(* Values *)

Text(k) == "text " \o ToString(k)
RemoteText == "text echoed by the remote"
RemoteSource == "source echoed by the remote"
ForeignId == MaxSmall + 3      \* an id no item of a freely chosen input has

Rec(i, t, s) == [type |-> "dict", id |-> i, feedback_text |-> t, source |-> s]
NonDict(ty) == [type |-> ty, id |-> NoId, feedback_text |-> Missing, source |-> Missing]

Value(ty, es) == [type |-> ty, elems |-> es]
EmptyList == Value("list", <<>>)
Null == Value("null", <<>>)
Pending == Value("pending", <<>>)

Ok(v) == [exc |-> "none", val |-> v]
Raise(e, v) == [exc |-> e, val |-> v]

Range(s) == {s[i] : i \in DOMAIN s}

RECURSIVE SeqsUpTo(_, _)
SeqsUpTo(S, n) ==
    IF n = 0 THEN {<<>>}
    ELSE LET shorter == SeqsUpTo(S, n - 1)
         IN  shorter \cup {Append(s, e) : s \in {t \in shorter : Len(t) = n - 1}, e \in S}

RECURSIVE SumOver(_, _)
SumOver(f, S) ==
    IF S = {} THEN 0
    ELSE LET x == CHOOSE y \in S : TRUE IN f[x] + SumOver(f, S \ {x})

-----------------------------------------------------------------------------
(* Inputs of a run *)

\* The item at position k of a freely chosen input: any of three ids or none, and
\* at most one of feedback_text and source absent.
SmallItems(k) ==
    {[id |-> i, feedback_text |-> ts[1], source |-> ts[2]] :
        i \in {NoId, 1, 2},
        ts \in {<<Text(k), "Reddit">>, <<Text(k), Missing>>, <<Missing, "Reddit">>}}

RECURSIVE SmallInputs(_)
SmallInputs(n) ==
    IF n = 0 THEN {<<>>}
    ELSE {Append(s, it) : s \in SmallInputs(n - 1), it \in SmallItems(n)}

\* A long input: complete items with the ids 1..n.
LongInput(n) == [k \in 1..n |-> [id |-> k, feedback_text |-> Text(k), source |-> "Survey"]]

\* Lengths of the long inputs: up to MaxMedium batches with a last batch of 20,
\* 1 or 5 items, and one input of MaxBatches batches.
LongLengths ==
    {batch_size * (k - 1) + r : k \in 1..MaxMedium, r \in {1, 5, batch_size}}
        \cup {batch_size * (MaxBatches - 1) + 1}

Inputs ==
    UNION {SmallInputs(n) : n \in 0..MaxSmall} \cup {LongInput(n) : n \in LongLengths}

-----------------------------------------------------------------------------
(* process_feedbacks_async: backfill and chunking *)

\* list.index(fb): the first position holding a dict equal to fb
Index(list, fb) == CHOOSE j \in 1..Len(list) : list[j] = fb /\ \A h \in 1..(j - 1) : list[h] # fb

\* One round of the loop "for fb in feedbacks" on the item at position k
BackfillItem(list, k) ==
    LET withSource == IF list[k].source = Missing
                      THEN [list EXCEPT ![k].source = "CSV"]
                      ELSE list
    IN  IF withSource[k].id = NoId
        THEN [withSource EXCEPT ![k].id = (Index(withSource, withSource[k]) - 1) + 1]
        ELSE withSource

RECURSIVE BackfillFrom(_, _)
BackfillFrom(list, k) ==
    IF k > Len(list) THEN list ELSE BackfillFrom(BackfillItem(list, k), k + 1)

Backfill(list) == BackfillFrom(list, 1)

\* feedbacks[i:j] with Python's 0-based, end-exclusive, clamped bounds
Slice(list, i, j) ==
    LET hi == IF j < Len(list) THEN j ELSE Len(list)
    IN  IF i >= hi THEN <<>> ELSE SubSeq(list, i + 1, hi)

\* range(0, n, step)
RangeFrom0(n, step) == {i \in 0..n : i < n /\ i % step = 0}

\* The off-by-one slice feedbacks[i+1 : i+batch_size+1]
ChunksShifted(list) ==
    [b \in 1..Cardinality(RangeFrom0(Len(list), batch_size)) |->
        Slice(list, (b - 1) * batch_size + 1, (b - 1) * batch_size + batch_size + 1)]

\* One chunk even when the list is empty: range(0, max(len, 1), batch_size)
ChunksAtLeastOne(list) ==
    LET n == IF Len(list) = 0 THEN 1 ELSE Len(list)
    IN  [b \in 1..Cardinality(RangeFrom0(n, batch_size)) |->
            Slice(list, (b - 1) * batch_size, (b - 1) * batch_size + batch_size)]

\* The chunks in batch_num order: batch_num = i // batch_size + 1, chunk = feedbacks[i:i+batch_size]
Chunks(list) ==
    [b \in 1..Cardinality(RangeFrom0(Len(list), batch_size)) |->
        Slice(list, (b - 1) * batch_size, (b - 1) * batch_size + batch_size)]

-----------------------------------------------------------------------------
(* build_prompt *)

\* One line "ID {id} [{source}]: {feedback_text}" per item
PromptLine(f) ==
    [id |-> f.id,
     source |-> IF f.source = Missing THEN "Unknown" ELSE f.source,
     feedback_text |-> f.feedback_text]

\* The prompt as its list of feedback lines; "" is the empty list of lines.
\* f['id'] and f['feedback_text'] raise KeyError for an absent key.
build_prompt(feedback_list) ==
    IF feedback_list = <<>> THEN Ok(<<>>)
    ELSE IF \E k \in 1..Len(feedback_list) :
                feedback_list[k].id = NoId \/ feedback_list[k].feedback_text = Missing
         THEN Raise("KeyError", <<>>)
         ELSE Ok([k \in 1..Len(feedback_list) |-> PromptLine(feedback_list[k])])

-----------------------------------------------------------------------------
(* What the remote service may answer *)

\* A payload is what arrives after a 200 status line: kind is
\*   "ClientError", "TimeoutError"  reading the body fails
\*   "BodyNotJson"                  the body is not JSON
\*   "EnvelopeNotObject"            the body is JSON but no object
\*   "NoCandidates"                 an object without 'candidates'
\*   "EmptyCandidates"              'candidates' is the empty array
\*   "TextGarbage"                  the text part is not JSON
\*   "Text"                         the text part is the JSON text of value
Payload(k, v) == [kind |-> k, value |-> v]
NoPayload == Payload("none", Null)

\* The answer the prompt asks for: one record per item, carrying the item's id
Echo(batch_data) ==
    Value("list", [k \in 1..Len(batch_data) |->
                      Rec(batch_data[k].id, RemoteText, RemoteSource)])

\* Elements of a freely chosen array: records with the id 1, 2 or ForeignId, and a number
FreeElems == {Rec(i, RemoteText, RemoteSource) : i \in {1, 2, ForeignId}} \cup {NonDict("int")}

NonArrays ==
    {Value("dict", <<>>), Value("dict", <<NonDict("str")>>),
     Value("str", <<>>), Value("str", <<NonDict("str")>>),
     Value("int", <<>>), Value("bool", <<>>), Null}

FailingKinds ==
    {"ClientError", "TimeoutError", "BodyNotJson", "EnvelopeNotObject",
     "NoCandidates", "EmptyCandidates", "TextGarbage"}

\* A run of one batch gets every answer; a run of up to MaxMedium batches one
\* answer of each class; a longer run the asked-for answer or a transport error.
PostOutcomes(nb) ==
    IF nb <= 1 THEN [exc : {"none"}, status : {200, 201, 429, 500}]
                        \cup [exc : {"ClientError", "TimeoutError"}, status : {0}]
    ELSE IF nb <= MaxMedium THEN [exc : {"none"}, status : {200, 500}]
                                    \cup [exc : {"ClientError"}, status : {0}]
    ELSE [exc : {"none"}, status : {200}] \cup [exc : {"ClientError"}, status : {0}]

Payloads(nb, batch_data) ==
    IF nb <= 1
    THEN {Payload(k, Null) : k \in FailingKinds}
            \cup {Payload("Text", v) : v \in NonArrays}
            \cup {Payload("Text", Value("list", es)) : es \in SeqsUpTo(FreeElems, MaxRecs)}
            \cup {Payload("Text", Echo(batch_data))}
    ELSE IF nb <= MaxMedium
    THEN {Payload("TextGarbage", Null), Payload("Text", Value("int", <<>>)),
          Payload("Text", Echo(batch_data))}
    ELSE {Payload("Text", Echo(batch_data))}

\* The body of a non-200 answer: reading it (response.text()) fails, or it is
\* text of any content, the asked-for answer included
ErrorBodies(nb, batch_data) ==
    IF nb <= 1
    THEN {Payload("ClientError", Null), Payload("TextGarbage", Null),
          Payload("Text", Echo(batch_data))}
    ELSE {Payload("ClientError", Null), Payload("Text", Echo(batch_data))}

-----------------------------------------------------------------------------
(* analyze_feedback_batch_async: from the body to the returned value *)

\* await response.json()
ResponseJson(p) ==
    IF p.kind \in {"ClientError", "TimeoutError"} THEN Raise(p.kind, p)
    ELSE IF p.kind = "BodyNotJson" THEN Raise("JSONDecodeError", p)
    ELSE Ok(p)

\* response_json.get('candidates', [{}])[0].get('content', {}).get('parts', [{}])[0].get('text', "").strip()
\* The text is [json, value]: json tells whether it is the JSON text of value.
ResultText(p) ==
    IF p.kind = "EnvelopeNotObject" THEN Raise("AttributeError", [json |-> FALSE, value |-> Null])
    ELSE IF p.kind = "EmptyCandidates" THEN Raise("IndexError", [json |-> FALSE, value |-> Null])
    ELSE IF p.kind = "Text" THEN Ok([json |-> TRUE, value |-> p.value])
    ELSE Ok([json |-> FALSE, value |-> Null])

\* A decoder that wraps a value that is no array into a one-element array
JsonLoadsWrapping(text) ==
    IF ~text.json THEN Raise("JSONDecodeError", Null)
    ELSE IF text.value.type = "list" THEN Ok(text.value)
    ELSE Ok(Value("list", <<[NonDict(text.value.type) EXCEPT !.feedback_text = RemoteText,
                                                               !.source = RemoteSource]>>))

\* json.loads(result_text)
JsonLoads(text) ==
    IF text.json THEN Ok(text.value) ELSE Raise("JSONDecodeError", Null)

\* enumerate(results) raises TypeError for a value that is not iterable
Iterable(v) == v.type \in {"list", "dict", "str"}

\* An overwrite that looks the item up by the record's id: a record whose id
\* no item of the batch has is left as sent
PreserveById(elems, batch_data, i) ==
    IF \E k \in DOMAIN elems : elems[k].type # "dict" THEN Raise("TypeError", elems)
    ELSE Ok([k \in DOMAIN elems |->
                LET hits == {j \in DOMAIN batch_data : batch_data[j].id = elems[k].id}
                IN  IF k < i \/ hits = {} THEN elems[k]
                    ELSE LET j == CHOOSE h \in hits : \A g \in hits : h <= g
                         IN  [elems[k] EXCEPT
                                 !.feedback_text = batch_data[j].feedback_text,
                                 !.source = IF batch_data[j].source = Missing
                                            THEN "CSV" ELSE batch_data[j].source]])

\* The loop without "if i < len(batch_data)": batch_data[i] raises IndexError
\* for a result beyond the batch
RECURSIVE PreserveFromUnguarded(_, _, _)
PreserveFromUnguarded(elems, batch_data, i) ==
    IF i > Len(elems) THEN Ok(elems)
    ELSE IF i > Len(batch_data) THEN Raise("IndexError", elems)
    ELSE IF elems[i].type # "dict" THEN Raise("TypeError", elems)
    ELSE IF batch_data[i].feedback_text = Missing THEN Raise("KeyError", elems)
    ELSE PreserveFromUnguarded(
            [elems EXCEPT ![i].feedback_text = batch_data[i].feedback_text,
                          ![i].source = IF batch_data[i].source = Missing
                                        THEN "CSV" ELSE batch_data[i].source],
            batch_data, i + 1)

\* The loop of lines 148-151 from position i (1-based) on: result['feedback_text'] = ...
\* raises TypeError for a result that is no dict, batch_data[i]['feedback_text']
\* raises KeyError for an item without it.  val is the list as mutated so far;
\* "mutated" is the list after this round, the rest of the loop runs on it.
RECURSIVE PreserveFrom(_, _, _)
PreserveFrom(elems, batch_data, i) ==
    IF i > Len(elems) THEN Ok(elems)
    ELSE IF i <= Len(batch_data)
    THEN IF elems[i].type # "dict" THEN Raise("TypeError", elems)
         ELSE IF batch_data[i].feedback_text = Missing THEN Raise("KeyError", elems)
         ELSE CHOOSE rest \in
                {PreserveFrom(mutated, batch_data, i + 1) :
                    mutated \in
                      {[elems EXCEPT ![i].feedback_text = batch_data[i].feedback_text,
                                     ![i].source = IF batch_data[i].source = Missing
                                                   THEN "CSV" ELSE batch_data[i].source]}} :
                TRUE
    ELSE PreserveFrom(elems, batch_data, i + 1)

\* An except clause that hands back what the loop had processed
OnErrorKeepingPartial(exc, partial) ==
    [result |-> Value("list", partial),
     outcome |-> IF exc \in {"ClientError"} THEN "http_error"
                 ELSE IF exc = "JSONDecodeError" THEN "json_error"
                 ELSE "unexpected",
     sleep |-> FALSE]

\* Except clauses that wait the pacing delay before they return []
OnErrorSleeping(exc, partial) ==
    [result |-> EmptyList,
     outcome |-> IF exc \in {"ClientError"} THEN "http_error"
                 ELSE IF exc = "JSONDecodeError" THEN "json_error"
                 ELSE "unexpected",
     sleep |-> TRUE]

\* The except clauses of lines 160-168: every one returns []
OnError(exc, partial) ==
    [result |-> EmptyList,
     outcome |-> IF exc \in {"ClientError"} THEN "http_error"
                 ELSE IF exc = "JSONDecodeError" THEN "json_error"
                 ELSE "unexpected",
     sleep |-> FALSE]

\* Lines 139-158 for one payload: the value returned, the exit path and whether
\* the pacing delay is reached
HandleBody(batch_data, p) ==
    LET body == ResponseJson(p) IN
    IF body.exc # "none" THEN OnError(body.exc, <<>>) ELSE
    LET text == ResultText(body.val) IN
    IF text.exc # "none" THEN OnError(text.exc, <<>>) ELSE
    LET results == JsonLoads(text.val) IN
    IF results.exc # "none" THEN OnError(results.exc, <<>>) ELSE
    IF ~Iterable(results.val) THEN OnError("TypeError", <<>>) ELSE
    LET done == PreserveFrom(results.val.elems, batch_data, 1) IN
    IF done.exc # "none" THEN OnError(done.exc, done.val)
    ELSE [result |-> Value(results.val.type, done.val), outcome |-> "ok", sleep |-> TRUE]

-----------------------------------------------------------------------------
(* process_feedbacks_async: fan-in *)

IsList(v) == v.type = "list"

\* all_results = all_results + result, which raises TypeError for a result that is no list
RECURSIVE MergeConcat(_)
MergeConcat(results) ==
    IF results = <<>> THEN Ok(<<>>)
    ELSE IF ~IsList(Head(results)) THEN Raise("TypeError", <<>>)
    ELSE LET rest == MergeConcat(Tail(results))
         IN  IF rest.exc # "none" THEN rest ELSE Ok(Head(results).elems \o rest.val)

\* A fan-in that gives up on the first batch that brought nothing
RECURSIVE MergeUntilEmpty(_)
MergeUntilEmpty(results) ==
    IF results = <<>> THEN Ok(<<>>)
    ELSE IF ~IsList(Head(results)) \/ Head(results).elems = <<>> THEN Ok(<<>>)
    ELSE Ok(Head(results).elems \o MergeUntilEmpty(Tail(results)).val)

\* A fan-in that puts each result in front of what it has: all_results = result + all_results
RECURSIVE MergePrepending(_)
MergePrepending(results) ==
    IF results = <<>> THEN Ok(<<>>)
    ELSE LET rest == MergePrepending(Tail(results))
         IN  IF IsList(Head(results)) THEN Ok(rest.val \o Head(results).elems) ELSE rest

\* Lines 199-206: the results of the tasks, in task order; a result that is a
\* list is appended, any other is skipped
RECURSIVE Merge(_)
Merge(results) ==
    IF results = <<>> THEN Ok(<<>>)
    ELSE LET rest == Merge(Tail(results))
         IN  IF IsList(Head(results)) THEN Ok(Head(results).elems \o rest.val) ELSE rest

-----------------------------------------------------------------------------
(* app.py: save_to_db *)

\* feedback_map: the last item with the id wins
FeedbackMapGet(original_feedbacks, i) ==
    LET hits == {k \in 1..Len(original_feedbacks) : original_feedbacks[k].id = i}
    IN  IF hits = {} THEN [text |-> "", source |-> "Unknown"]
        ELSE LET k == CHOOSE m \in hits : \A h \in hits : h <= m
             IN  [text |-> original_feedbacks[k].feedback_text,
                  source |-> IF original_feedbacks[k].source = Missing
                             THEN "CSV" ELSE original_feedbacks[k].source]

\* The rows inserted; f['feedback_text'] raises KeyError for an item without it,
\* r['id'] raises TypeError for a result that is no dict
save_to_db(results, original_feedbacks) ==
    IF \E k \in 1..Len(original_feedbacks) : original_feedbacks[k].feedback_text = Missing
    THEN Raise("KeyError", <<>>)
    ELSE IF \E k \in 1..Len(results) : results[k].type # "dict"
    THEN Raise("TypeError", <<>>)
    ELSE Ok([k \in 1..Len(results) |->
                LET fb == FeedbackMapGet(original_feedbacks, results[k].id)
                IN  [feedback_id |-> results[k].id, feedback_text |-> fb.text,
                     source |-> fb.source]])

-----------------------------------------------------------------------------
(* The state machine *)

Tasks == DOMAIN batches
NumBatches == Len(batches)

Init ==
    /\ feedbacks \in Inputs
    /\ main_pc = "start"
    /\ batches = <<>>
    /\ pc = <<>>
    /\ semaphore = max_concurrent
    /\ status = <<>>
    /\ reply = <<>>
    /\ task_result = <<>>
    /\ outcome = <<>>
    /\ requests = 0
    /\ all_results = <<>>
    /\ db = <<>>
    /\ acquired = <<>>
    /\ released = <<>>
    /\ slept = <<>>
    /\ overtaken = FALSE

\* The state of the tasks before any of them has run, one task per chunk
TasksCreated(chunks) ==
    /\ batches' = chunks
    /\ pc' = [b \in DOMAIN chunks |-> "waiting"]
    /\ semaphore' = max_concurrent
    /\ status' = [b \in DOMAIN chunks |-> 0]
    /\ reply' = [b \in DOMAIN chunks |-> NoPayload]
    /\ task_result' = [b \in DOMAIN chunks |-> Pending]
    /\ outcome' = [b \in DOMAIN chunks |-> "none"]
    /\ acquired' = [b \in DOMAIN chunks |-> 0]
    /\ released' = [b \in DOMAIN chunks |-> 0]
    /\ slept' = [b \in DOMAIN chunks |-> 0]

\* Lines 177-197: backfill, create the semaphore and one task per chunk, then
\* wait in asyncio.gather
Call ==
    /\ main_pc = "start"
    /\ feedbacks' = Backfill(feedbacks)
    /\ TasksCreated(Chunks(feedbacks'))
    /\ main_pc' = "gathering"
    /\ UNCHANGED <<requests, all_results, db, overtaken>>

\* A semaphore that never blocks
CanAcquireAlways(value) == TRUE

\* asyncio.Semaphore: acquire goes through while the value is positive
CanAcquire(value) == value > 0

\* The end of "async with semaphore": the slot goes back and the task is done
Release(b) ==
    /\ pc' = [pc EXCEPT ![b] = "done"]
    /\ released' = [released EXCEPT ![b] = @ + 1]
    /\ overtaken' = (overtaken \/ \E a \in Tasks : a < b /\ pc[a] # "done")

\* An exit that goes back to the queue after a failure, to try the batch again
ExitRetrying(b, h) ==
    /\ task_result' = [task_result EXCEPT ![b] = h.result]
    /\ outcome' = [outcome EXCEPT ![b] = h.outcome]
    /\ semaphore' = semaphore + 1
    /\ released' = [released EXCEPT ![b] = @ + 1]
    /\ pc' = [pc EXCEPT ![b] = IF h.outcome = "ok" THEN "done" ELSE "waiting"]
    /\ UNCHANGED overtaken

\* An exit that leaves the "async with" block without giving the slot back
ExitKeepingSlot(b, h) ==
    /\ task_result' = [task_result EXCEPT ![b] = h.result]
    /\ outcome' = [outcome EXCEPT ![b] = h.outcome]
    /\ pc' = [pc EXCEPT ![b] = "done"]
    /\ UNCHANGED <<semaphore, released, overtaken>>

\* A return inside "async with semaphore": the slot is released and the task is done
Exit(b, h) ==
    /\ task_result' = [task_result EXCEPT ![b] = h.result]
    /\ outcome' = [outcome EXCEPT ![b] = h.outcome]
    /\ semaphore' = semaphore + 1
    /\ Release(b)

\* gather starts the tasks in list order and the semaphore wakes its waiters
\* first come, first served: a task enters after every task created before it
InTurn(b) == \A a \in Tasks : a < b => pc[a] # "waiting"

\* Lines 115-133, run without suspension once the semaphore lets the task in:
\* take a slot, build the prompt and issue the request.  A KeyError gives the
\* slot back in the same step.
Start(b) ==
    /\ pc[b] = "waiting"
    /\ InTurn(b)
    /\ CanAcquire(semaphore)
    /\ acquired' = [acquired EXCEPT ![b] = @ + 1]
    /\ IF build_prompt(batches[b]).exc = "KeyError"
       THEN /\ task_result' = [task_result EXCEPT ![b] = EmptyList]
            /\ outcome' = [outcome EXCEPT ![b] = "key_error"]
            /\ Release(b)
            /\ UNCHANGED <<semaphore, requests>>
       ELSE /\ semaphore' = semaphore - 1
            /\ requests' = requests + 1
            /\ pc' = [pc EXCEPT ![b] = "posted"]
            /\ UNCHANGED <<task_result, outcome, released, overtaken>>
    /\ UNCHANGED <<feedbacks, main_pc, batches, status, reply, all_results, db, slept>>

\* Lines 133-134: session.post fails, or the status line arrives
ReceiveStatus(b) ==
    /\ pc[b] = "posted"
    /\ \E o \in PostOutcomes(NumBatches) :
          IF o.exc # "none"
          THEN /\ Exit(b, OnError(o.exc, <<>>))
               /\ UNCHANGED status
          ELSE /\ status' = [status EXCEPT ![b] = o.status]
               /\ pc' = [pc EXCEPT ![b] = IF o.status # 200 THEN "errbody" ELSE "body"]
               /\ UNCHANGED <<semaphore, task_result, outcome, released, overtaken>>
    /\ UNCHANGED <<feedbacks, main_pc, batches, reply, requests, all_results, db,
                   acquired, slept>>

\* Lines 135-137: the body of an answer whose status is not 200 is read for the
\* log only
ReceiveErrorBody(b) ==
    /\ pc[b] = "errbody"
    /\ \E p \in ErrorBodies(NumBatches, batches[b]) :
          /\ reply' = [reply EXCEPT ![b] = p]
          /\ IF p.kind = "ClientError"
             THEN Exit(b, OnError(p.kind, <<>>))
             ELSE Exit(b, [result |-> EmptyList, outcome |-> "api_error", sleep |-> FALSE])
    /\ UNCHANGED <<feedbacks, main_pc, batches, status, requests, all_results, db,
                   acquired, slept>>

\* Lines 139-156: the body of a 200 answer, up to the pacing delay.  While the
\* task sleeps, task_result holds the local "results" it will return.
ReceiveBody(b) ==
    /\ pc[b] = "body"
    /\ \E p \in Payloads(NumBatches, batches[b]) :
          \E h \in {HandleBody(batches[b], p)} :
              /\ reply' = [reply EXCEPT ![b] = p]
              /\ IF h.sleep
                 THEN /\ task_result' = [task_result EXCEPT ![b] = h.result]
                      /\ outcome' = [outcome EXCEPT ![b] = h.outcome]
                      /\ pc' = [pc EXCEPT ![b] = "sleeping"]
                      /\ slept' = [slept EXCEPT ![b] = @ + 1]
                      /\ UNCHANGED <<semaphore, released, overtaken>>
                 ELSE /\ Exit(b, h)
                      /\ UNCHANGED slept
    /\ UNCHANGED <<feedbacks, main_pc, batches, status, requests, all_results, db,
                   acquired>>

\* Lines 156-158: the pacing delay is over, the task returns
Wake(b) ==
    /\ pc[b] = "sleeping"
    /\ semaphore' = semaphore + 1
    /\ Release(b)
    /\ UNCHANGED <<feedbacks, main_pc, batches, status, reply, task_result, outcome,
                   requests, all_results, db, acquired, slept>>

\* asyncio.wait(..., return_when=FIRST_COMPLETED): one finished task is enough
AnyDone(state) == \E b \in DOMAIN state : state[b] = "done"

\* asyncio.gather returns once every task has finished
AllDone(state) == \A b \in DOMAIN state : state[b] = "done"

\* Lines 197-206: gather has every task's result; merge and return
Return ==
    /\ main_pc = "gathering"
    /\ AllDone(pc)
    /\ LET merged == Merge(task_result)
       IN  /\ all_results' = merged.val
           /\ main_pc' = IF merged.exc = "none" THEN "returned" ELSE "raised"
    /\ UNCHANGED <<feedbacks, batches, pc, semaphore, status, reply, task_result,
                   outcome, requests, db, acquired, released, slept, overtaken>>

\* app.py lines 283-295 and 412-413: the caller stores a non-empty result
SaveToDb ==
    /\ main_pc = "returned"
    /\ all_results # <<>>
    /\ LET saved == save_to_db(all_results, feedbacks)
       IN  /\ db' = saved.val
           /\ main_pc' = IF saved.exc = "none" THEN "saved" ELSE "save_error"
    /\ UNCHANGED <<feedbacks, batches, pc, semaphore, status, reply, task_result,
                   outcome, requests, all_results, acquired, released, slept, overtaken>>

Next ==
    \/ Call
    \/ \E b \in Tasks : Start(b)
    \/ \E b \in Tasks : ReceiveStatus(b)
    \/ \E b \in Tasks : ReceiveErrorBody(b)
    \/ \E b \in Tasks : ReceiveBody(b)
    \/ \E b \in Tasks : Wake(b)
    \/ Return
    \/ SaveToDb

Spec == Init /\ [][Next]_vars

\* The event loop runs a task that can take a step, and every remote call ends
\* (with an answer or an error): a step that stays possible is taken.
Running ==
    \/ \E b \in Tasks :
          Start(b) \/ ReceiveStatus(b) \/ ReceiveErrorBody(b) \/ ReceiveBody(b) \/ Wake(b)
    \/ Return

FairSpec == Init /\ [][Next]_vars /\ WF_vars(Running)

\* analyze_feedback_batch_async(session, batch_data, 1, semaphore) called on
\* its own, with a fresh Semaphore(max_concurrent) and any short batch_data,
\* the empty list included; no backfill has run on the items.
DirectBatches == UNION {SmallInputs(n) : n \in 0..MaxSmall}

DirectInit ==
    /\ feedbacks \in DirectBatches
    /\ main_pc = "direct"
    /\ batches = <<feedbacks>>
    /\ pc = <<"waiting">>
    /\ semaphore = max_concurrent
    /\ status = <<0>>
    /\ reply = <<NoPayload>>
    /\ task_result = <<Pending>>
    /\ outcome = <<"none">>
    /\ requests = 0
    /\ all_results = <<>>
    /\ db = <<>>
    /\ acquired = <<0>>
    /\ released = <<0>>
    /\ slept = <<0>>
    /\ overtaken = FALSE

DirectNext ==
    \/ Start(1)
    \/ ReceiveStatus(1)
    \/ ReceiveErrorBody(1)
    \/ ReceiveBody(1)
    \/ Wake(1)

DirectSpec == DirectInit /\ [][DirectNext]_vars

-----------------------------------------------------------------------------
(* Vocabulary of the properties *)

\* process_feedbacks_async has returned its list (the caller may have stored it since)
Returned == main_pc \in {"returned", "saved", "save_error"}

\* Tasks whose request is issued and whose answer is not yet fully handled
Outstanding == {b \in Tasks : pc[b] \in {"posted", "body", "errbody"}}

Settled(b) == pc[b] = "done"
Succeeded(b) == outcome[b] = "ok"
Failed(b) == Settled(b) /\ outcome[b] # "ok"

\* Number of records a task's return value adds to the output
ListLen(v) == IF IsList(v) THEN Len(v.elems) ELSE 0

\* The remote service answered task b with JSON text; the decoded value is an array or not
SentJson(b) == reply[b].kind = "Text"
SentArray(b) == SentJson(b) /\ reply[b].value.type = "list"
SentNonArray(b) == SentJson(b) /\ reply[b].value.type # "list"

BatchIds(b) == {batches[b][k].id : k \in DOMAIN batches[b]}
UniqueIds == \A j, k \in DOMAIN feedbacks : feedbacks[j].id = feedbacks[k].id => j = k

RECURSIVE Flatten(_)
Flatten(ss) == IF ss = <<>> THEN <<>> ELSE Head(ss) \o Flatten(Tail(ss))

-----------------------------------------------------------------------------
(* C1 *)

\* C1: in every reachable state at most 5 (max_concurrent) batches have an
\* outstanding network call, however many batches the run has.
C1_ConcurrencyCap == Cardinality(Outstanding) <= max_concurrent

\* All 5 slots are taken by outstanding calls while a further batch waits.
C1_Witness ==
    /\ Cardinality(Outstanding) = max_concurrent
    /\ \E b \in Tasks : pc[b] = "waiting"

(* C2 *)

\* C2: whatever batches fail, every batch that succeeds contributes all the
\* records it decoded: a settled successful batch holds as many records as its
\* answer had, however the later batches end, and the returned list has exactly
\* the records of the successful batches (40 when only the middle one of three
\* batches of 20 fails).
C2_FailureIsolation ==
    /\ \A b \in Tasks :
          Settled(b) /\ Succeeded(b) => Len(task_result[b].elems) = Len(reply[b].value.elems)
    /\ Returned =>
          /\ Len(all_results) =
                SumOver([b \in Tasks |-> Len(reply[b].value.elems)],
                        {b \in Tasks : Succeeded(b)})
          /\ \A b \in Tasks :
                Succeeded(b) /\ IsList(task_result[b]) =>
                    Range(task_result[b].elems) \subseteq Range(all_results)

\* Three batches of 20, the middle one failed, the outer two succeeded: 40 records.
C2_Witness ==
    /\ Returned
    /\ NumBatches = 3
    /\ \A b \in Tasks : Len(batches[b]) = batch_size
    /\ Succeeded(1) /\ Failed(2) /\ Succeeded(3)
    /\ Len(all_results) = 40

(* C3 *)

\* C3: the returned list never has more records than feedback items were submitted.
C3_NoMoreThanSubmitted == Returned => Len(all_results) <= Len(feedbacks)

(* C4 *)

\* C4: with unique ids, every returned record carries the feedback_text and the
\* source of the item of its batch that has the record's id.
C4_ProvenanceById ==
    Returned /\ UniqueIds =>
        \A b \in Tasks :
            IsList(task_result[b]) =>
                \A i \in DOMAIN task_result[b].elems :
                    LET r == task_result[b].elems[i]
                    IN  r.type = "dict" =>
                            \A k \in DOMAIN batches[b] :
                                batches[b][k].id = r.id =>
                                    /\ r.feedback_text = batches[b][k].feedback_text
                                    /\ r.source = batches[b][k].source

(* C5 *)

\* C5: no outcome of any batch makes process_feedbacks_async raise: it returns
\* the list of the records of the batches that returned a list, which is
\* partial or empty when batches failed.
C5_NeverRaises ==
    /\ main_pc # "raised"
    /\ Returned =>
          Len(all_results) =
              SumOver([b \in Tasks |-> ListLen(task_result[b])], Tasks)

\* The call has returned a partial list: one batch failed, another brought records.
C5_Witness ==
    /\ Returned
    /\ \E b \in Tasks : Failed(b)
    /\ \E b \in Tasks : Succeeded(b) /\ ListLen(task_result[b]) > 0
    /\ all_results # <<>>

(* C6 *)

\* C6: n items give ceil(n/20) batches, consecutive slices of the input in input
\* order: all but the last have 20 items, the last has 1 to 20, and their
\* concatenation in batch order is the input.
C6_Batching ==
    main_pc # "start" =>
        /\ NumBatches = (Len(feedbacks) + batch_size - 1) \div batch_size
        /\ \A b \in Tasks : b < NumBatches => Len(batches[b]) = batch_size
        /\ NumBatches > 0 => Len(batches[NumBatches]) \in 1..batch_size
        /\ Flatten(batches) = feedbacks

\* 45 items are split into batches of 20, 20 and 5.
C6_Witness ==
    /\ main_pc # "start"
    /\ Len(feedbacks) = 45
    /\ [b \in Tasks |-> Len(batches[b])] = <<20, 20, 5>>

(* C7 *)

\* C7: called with an empty list, process_feedbacks_async creates no batch,
\* takes no slot, issues no request and returns the empty list.
C7_EmptyInput ==
    Len(feedbacks) = 0 =>
        /\ batches = <<>>
        /\ semaphore = max_concurrent
        /\ requests = 0
        /\ all_results = <<>>
        /\ main_pc \in {"start", "gathering", "returned"}

\* The call with the empty list has returned.
C7_Witness == Len(feedbacks) = 0 /\ main_pc = "returned" /\ all_results = <<>>

(* C8 *)

\* C8: a batch whose answer decodes to JSON that is no array (object, string,
\* number, boolean, null) contributes no record, and the run does not raise:
\* the returned list has the records of the other batches only.
C8_NonArrayYieldsNothing ==
    /\ main_pc # "raised"
    /\ \A b \in Tasks : SentNonArray(b) => ListLen(task_result[b]) = 0
    /\ Returned =>
          Len(all_results) =
              SumOver([b \in Tasks |-> ListLen(task_result[b])],
                      {b \in Tasks : ~SentNonArray(b)})

\* A batch answered with the empty object ran to its end as a success, and the
\* call returned without a record of it.
C8_Witness ==
    /\ Returned
    /\ \E b \in Tasks :
          /\ SentNonArray(b)
          /\ reply[b].value = Value("dict", <<>>)
          /\ Succeeded(b)
    /\ all_results = <<>>

(* C9 *)

\* C9: a returned record whose id is the id of no item of its batch has received
\* no original item's feedback_text or source.
C9_ForeignIdUnmatched ==
    Returned =>
        \A b \in Tasks :
            IsList(task_result[b]) =>
                \A i \in DOMAIN task_result[b].elems :
                    LET r == task_result[b].elems[i]
                    IN  r.type = "dict" /\ r.id \notin BatchIds(b) =>
                            \A k \in DOMAIN feedbacks :
                                /\ r.feedback_text # feedbacks[k].feedback_text
                                /\ r.source # feedbacks[k].source

(* C10 *)

\* C10: a batch that fails (transport failure, timeout, status other than 200,
\* undecodable payload, error while processing the records) returns the empty
\* list, so the returned list has the records of the successful batches only.
C10_FailedBatchYieldsNothing ==
    /\ \A b \in Tasks : Failed(b) => task_result[b] = EmptyList
    /\ Returned =>
          Len(all_results) =
              SumOver([b \in Tasks |-> ListLen(task_result[b])],
                      {b \in Tasks : Succeeded(b)})

\* A batch failed on the second record of its answer after the first was processed.
C10_Witness ==
    \E b \in Tasks :
        /\ Failed(b)
        /\ outcome[b] = "unexpected"
        /\ SentArray(b)
        /\ Len(batches[b]) >= 2
        /\ Len(reply[b].value.elems) >= 2
        /\ reply[b].value.elems[1].type = "dict"
        /\ reply[b].value.elems[2].type # "dict"

(* C11 *)

\* C11: process_feedbacks_async returns exactly when all batches have settled.
\* It has never returned while a batch is waiting for a slot, in flight or in
\* its pacing delay; and when the event loop keeps running what can run and
\* every remote call ends, a call of process_feedbacks_async leads to its
\* return, with every batch settled, also when there are more than 5 batches.
C11_ReturnsWhenAllSettled ==
    /\ [](Returned => \A b \in Tasks : Settled(b))
    /\ (main_pc = "gathering") ~> (Returned /\ \A b \in Tasks : Settled(b))

\* A run of more than 5 batches has returned: the batches that had to wait for
\* a slot got one and settled.
C11_Witness ==
    /\ Returned
    /\ NumBatches > max_concurrent
    /\ \A b \in Tasks : Settled(b) /\ acquired[b] = 1

(* C12 *)

\* C12: every record of the returned list has the id of some feedback item of
\* the batch whose remote call produced the record.
C12_IdsFromBatch ==
    Returned =>
        \A r \in Range(all_results) :
            r.type = "dict" =>
                \E b \in Tasks :
                    /\ IsList(task_result[b])
                    /\ r \in Range(task_result[b].elems)
                    /\ r.id \in BatchIds(b)

(* C13 *)

\* C13: whatever the order in which the batches finished, the returned list
\* is the concatenation of the batches' result lists in dispatch order: the
\* records of batch b stand, in their order, right after the records of the
\* batches 1..b-1, and nothing else is in the list.  The list is thus a
\* function of the per-batch results alone.
C13_DispatchOrder ==
    Returned =>
        LET len == [b \in Tasks |-> ListLen(task_result[b])]
            before(b) == SumOver(len, {a \in Tasks : a < b})
        IN  /\ Len(all_results) = SumOver(len, Tasks)
            /\ \A b \in Tasks :
                  \A i \in 1..len[b] :
                      all_results[before(b) + i] = task_result[b].elems[i]

\* Batch 2 of two finished before batch 1 and both brought records; the
\* returned list still starts with the records of batch 1.
C13_Witness ==
    /\ Returned
    /\ NumBatches = 2
    /\ overtaken
    /\ Succeeded(1) /\ Succeeded(2)
    /\ ListLen(task_result[1]) > 0 /\ ListLen(task_result[2]) > 0
    /\ all_results[1] = task_result[1].elems[1]
    /\ all_results[1] # task_result[2].elems[1]

(* C14 *)

\* Tasks that are inside "async with semaphore" after taking a slot
Holding == {b \in Tasks : pc[b] \in {"posted", "body", "errbody", "sleeping"}}

\* C14: a batch is in its pacing delay only after a successful call (status
\* 200, body decoded and processed: its outcome is "ok"), it sleeps at most
\* once, and while it sleeps it has not released its slot, which still counts
\* as in use; a batch that succeeded has slept before it released the slot and
\* a batch that failed has released its slot without ever sleeping.
C14_PacingDelay ==
    /\ \A b \in Tasks :
          /\ slept[b] <= 1
          /\ slept[b] = 1 => status[b] = 200 /\ SentJson(b) /\ Succeeded(b)
          /\ pc[b] = "sleeping" => slept[b] = 1 /\ released[b] = 0
          /\ Settled(b) /\ Succeeded(b) => slept[b] = 1
          /\ Failed(b) => slept[b] = 0 /\ released[b] = 1
    /\ semaphore = max_concurrent - Cardinality(Holding)

\* A batch is in its pacing delay after a 200 answer and its slot is still
\* taken, next to a failed batch that has gone without a delay.
C14_Witness ==
    \E a, b \in Tasks :
        /\ pc[a] = "sleeping" /\ status[a] = 200 /\ slept[a] = 1 /\ released[a] = 0
        /\ Failed(b) /\ slept[b] = 0 /\ released[b] = 1
        /\ Holding = {a}
        /\ semaphore = max_concurrent - 1

(* C15 *)

\* C15: each batch acquires a slot once and releases it once: it never
\* acquires twice, never releases what it does not hold, holds the slot exactly
\* from issuing its one request to its exit, and has acquired and released once
\* when it has settled, whatever the exit path (success, KeyError of the prompt,
\* non-200 status, transport error, decode error, unexpected exception).  Free
\* slots plus held slots are 5 in every state, and all 5 are free at the return.
C15_SlotAccounting ==
    /\ \A b \in Tasks :
          /\ acquired[b] <= 1
          /\ released[b] <= acquired[b]
          /\ b \in Holding <=> acquired[b] = 1 /\ released[b] = 0
          /\ Settled(b) =>
                /\ outcome[b] \in {"ok", "key_error", "api_error", "http_error",
                                   "json_error", "unexpected"}
                /\ acquired[b] = 1 /\ released[b] = 1
    /\ semaphore + SumOver([b \in Tasks |-> acquired[b] - released[b]], Tasks)
          = max_concurrent
    /\ semaphore \in 0..max_concurrent
    /\ Returned => semaphore = max_concurrent

\* A run of three batches has returned after a success, a non-200 status and
\* an exception; each batch acquired and released once and the 5 slots are free.
C15_Witness ==
    /\ Returned
    /\ NumBatches = 3
    /\ {outcome[b] : b \in Tasks} = {"ok", "api_error", "unexpected"}
    /\ \A b \in Tasks : acquired[b] = 1 /\ released[b] = 1
    /\ semaphore = max_concurrent

(* C16 *)

\* Batches that have got past build_prompt without a KeyError
PromptBuilt == {b \in Tasks : pc[b] # "waiting" /\ outcome[b] # "key_error"}

\* C16: each batch issues at most one request and a failed batch is not tried
\* again: the number of requests issued never exceeds the number of batches,
\* it is in every state the number of batches whose prompt was built without
\* error, and a settled batch never leaves the settled state.
C16_OneRequestPerBatch ==
    /\ requests <= NumBatches
    /\ requests = Cardinality(PromptBuilt)
    /\ \A b \in Tasks : Failed(b) => acquired[b] = 1

\* A run of several batches has returned, two of them failed, and exactly one
\* request per batch was issued.
C16_Witness ==
    /\ Returned
    /\ NumBatches = 3
    /\ Failed(1) /\ Failed(3) /\ Succeeded(2)
    /\ requests = 3

(* C17 *)

CallerIdsDistinct ==
    \A j, k \in DOMAIN feedbacks :
        feedbacks[j].id # NoId /\ feedbacks[j].id = feedbacks[k].id => j = k

\* C18: for every input whose caller-assigned ids are pairwise distinct, with
\* any subset of the items lacking an id, the ids of all items are pairwise
\* distinct once process_feedbacks_async has backfilled the missing fields.
C18_IdsDistinctAfterBackfill ==
    [][main_pc = "start" /\ main_pc' = "gathering" /\ CallerIdsDistinct
          => UniqueIds' /\ \A k \in DOMAIN feedbacks' : feedbacks'[k].id # NoId]_vars

(* C19 *)

\* The answer to batch b was a JSON array whose elements are all records
SentRecords(b) ==
    /\ SentArray(b)
    /\ \A i \in DOMAIN reply[b].value.elems : reply[b].value.elems[i].type = "dict"

\* Batch b is treated as successful and its records are in the output: it
\* returned one record per record sent, with the ids sent, and the returned
\* list holds them.
Contributes(b) ==
    /\ Succeeded(b)
    /\ IsList(task_result[b])
    /\ Len(task_result[b].elems) = Len(reply[b].value.elems)
    /\ \A i \in DOMAIN task_result[b].elems :
          task_result[b].elems[i].id = reply[b].value.elems[i].id
    /\ Returned => Range(task_result[b].elems) \subseteq Range(all_results)

SourceOf(item) == IF item.source = Missing THEN "CSV" ELSE item.source

\* C20: for every successful batch with the items b[1..m] and the decoded
\* records r[1..k], the record returned at a position i <= min(k, m) has the
\* feedback_text and the source of the item b[i] at the same position, whatever
\* id r[i] carries (the id is returned as sent), and the record returned at a
\* position i > m is r[i] exactly as the remote service sent it.
C20_PositionalOverwrite ==
    \A b \in Tasks :
        Settled(b) /\ Succeeded(b) =>
            LET r == reply[b].value.elems
                out == task_result[b].elems
                m == Len(batches[b])
            IN  /\ Len(out) = Len(r)
                /\ \A i \in DOMAIN r :
                      IF i <= m
                      THEN /\ out[i].feedback_text = batches[b][i].feedback_text
                           /\ out[i].source = SourceOf(batches[b][i])
                           /\ out[i].id = r[i].id
                      ELSE out[i] = r[i]

\* A successful batch of one item got two records; the first carries an id
\* that is not the item's and still got the item's text, the second is
\* returned as sent.
C20_Witness ==
    \E b \in Tasks :
        /\ Settled(b) /\ Succeeded(b)
        /\ Len(batches[b]) = 1
        /\ Len(reply[b].value.elems) = 2
        /\ reply[b].value.elems[1].id # batches[b][1].id
        /\ task_result[b].elems[1].feedback_text = batches[b][1].feedback_text
        /\ task_result[b].elems[2] = reply[b].value.elems[2]
        /\ task_result[b].elems[2].feedback_text = RemoteText
====
